---- MODULE Spec2Model ----
(***************************************************************************)
(* A model of bin/server.js of hypershell: the P2P shell server.           *)
(*                                                                         *)
(* The state is the state of one run of cmd(): the options, the `allowed`  *)
(* variable that the firewall callback reads and the file watcher writes,  *)
(* the authorized-peers file on disk, the connections of the server, and   *)
(* the graceful-goodbye registry with its drain.  Every action is one      *)
(* JavaScript callback (one macrotask with the microtasks it queues), so   *)
(* callbacks never interleave inside each other.                           *)
(***************************************************************************)
EXTENDS Naturals, Integers, Sequences, FiniteSets

\* ----------------------------------------------------------------- bounds
NumConns == 2
NumKeys == 2
MaxLines == 1
MaxNegotiations == 1
MaxStartups == 2

\* ------------------------------------------------------ program constants
SocketPosition == 1
ServerPosition == 2
NodePosition == 3
UnwatchPosition == 3

PROTOCOLS == {"shell", "upload", "download", "tunnel"}

Conns == 1..NumConns
Keys == 1..NumKeys

\* ------------------------------------------------ the authorized-peers file
\* A token of a line: a public key written in hex or in z32 (HypercoreId
\* decodes both to the same key), or text that is no encoded key.
KeyTokens == [enc : {"hex", "z32"}, key : Keys]
BadToken == [enc |-> "text", key |-> 0]
Tokens == KeyTokens \cup {BadToken}

CommentLine == [kind |-> "comment", fields |-> <<>>]
BlankLine == [kind |-> "blank", fields |-> <<>>]
EntryLine(t) == [kind |-> "entry", fields |-> <<t, BadToken>>]
Lines == {CommentLine, BlankLine} \cup {EntryLine(t) : t \in Tokens}

SeqsUpTo(S, n) == UNION {[1..m -> S] : m \in 0..n}
Contents == SeqsUpTo(Lines, MaxLines)
\* The file is absent, or holds lines.
NoFile == [exists |-> FALSE, lines |-> <<>>]
FileOf(ls) == [exists |-> TRUE, lines |-> ls]
Files == {NoFile} \cup {FileOf(ls) : ls \in Contents}
DefaultFirewall == FileOf(<<CommentLine>>)

\* configs.parse(list, { split: ' ', length: 2 }): the fields of the lines
\* that are neither blank nor comments, in order.
RECURSIVE ConfigsParse(_)
ConfigsParse(ls) ==
    IF ls = <<>> THEN <<>>
    ELSE IF Head(ls).kind = "entry"
         THEN <<Head(ls).fields>> \o ConfigsParse(Tail(ls))
         ELSE ConfigsParse(Tail(ls))

\* HypercoreId.decode: the key of a hex or z32 token; it throws on other text.
Decodable(t) == t.enc \in {"hex", "z32"}
Decode(t) == t.key

\* readAuthorizedPeers' try block on the text `ls`: the decoded first field
\* of every entry, or a throw (ok = FALSE) when a first field does not decode.
readAuthorizedPeers(ls) ==
    LET vs == ConfigsParse(ls)
    IN  IF \E i \in 1..Len(vs) : ~Decodable(vs[i][1])
        THEN [ok |-> FALSE, peers |-> <<>>]
        ELSE [ok |-> TRUE, peers |-> [i \in 1..Len(vs) |-> Decode(vs[i][1])]]

\* ------------------------------------------------------------ the firewall
\* The value of `allowed`: true (the firewall is disabled) or a list of keys.
AllowAll == [all |-> TRUE, peers |-> <<>>]
ListOf(ps) == [all |-> FALSE, peers |-> ps]

\* onFirewall(remotePublicKey): what it logs and what it returns (true
\* rejects the connection).
Verdict(log, ret) == [log |-> log, ret |-> ret]
\* (a variant that allows a key differing from some listed key)
onFirewallUnequal(a, pk) ==
    IF a.all THEN Verdict("allowed", FALSE)
    ELSE IF \E i \in 1..Len(a.peers) : a.peers[i] # pk THEN Verdict("allowed", FALSE)
    ELSE Verdict("denied", TRUE)
\* (a variant whose last return lets the denied peer in)
onFirewallReturnsFalse(a, pk) ==
    IF a.all THEN Verdict("allowed", FALSE)
    ELSE IF \E i \in 1..Len(a.peers) : a.peers[i] = pk THEN Verdict("allowed", FALSE)
    ELSE Verdict("denied", FALSE)
onFirewall(a, pk) ==
    IF a.all THEN Verdict("allowed", FALSE)
    ELSE IF \E i \in 1..Len(a.peers) : a.peers[i] = pk THEN Verdict("allowed", FALSE)
    ELSE Verdict("denied", TRUE)

\* ------------------------------------------------------------ the protocols
\* The protomux protocol and the handler class of each protocol option.
MuxProtocol(p) ==
    CASE p = "shell" -> "hypershell"
      [] p = "upload" -> "hypershell-upload"
      [] p = "download" -> "hypershell-download"
      [] p = "tunnel" -> "hypershell-tunnel-local"
HandlerOf(m) ==
    CASE m = "hypershell" -> "ShellServer"
      [] m = "hypershell-upload" -> "UploadServer"
      [] m = "hypershell-download" -> "DownloadServer"
      [] m = "hypershell-tunnel-local" -> "LocalTunnelServer"
MuxProtocols == {MuxProtocol(p) : p \in PROTOCOLS}
\* The values of options.protocol of a run (absent: PROTOCOLS).
ProtocolChoices == {PROTOCOLS, {"shell"}}

\* (a variant that pairs the upload protocol whatever the option)
PairedUploadAlways(ps) ==
    (IF "shell" \in ps THEN {MuxProtocol("shell")} ELSE {})
    \cup {MuxProtocol("upload")}
    \cup (IF "download" \in ps THEN {MuxProtocol("download")} ELSE {})
    \cup (IF "tunnel" \in ps THEN {MuxProtocol("tunnel")} ELSE {})
\* onconnection's four `if (protocols.includes(..)) mux.pair(..)`.
Paired(ps) ==
    (IF "shell" \in ps THEN {MuxProtocol("shell")} ELSE {})
    \cup (IF "upload" \in ps THEN {MuxProtocol("upload")} ELSE {})
    \cup (IF "download" \in ps THEN {MuxProtocol("download")} ELSE {})
    \cup (IF "tunnel" \in ps THEN {MuxProtocol("tunnel")} ELSE {})

\* ------------------------------------------------------------ the registry
\* A graceful-goodbye handler: what it tears down and its position.
Handler(kind, conn, position) == [kind |-> kind, conn |-> conn, position |-> position]
HandlerId(h) == <<h.kind, h.conn>>
SocketId(c) == <<"socket", c>>
ServerId == <<"server", 0>>
NodeId == <<"node", 0>>
UnwatchId == <<"unwatch", 0>>
HandlerIds == {ServerId, NodeId, UnwatchId} \cup {SocketId(c) : c \in Conns}
Ids(hs) == {HandlerId(h) : h \in hs}

\* goodbye(fn, position) of cmd and of onconnection.
UnwatchHandler == Handler("unwatch", 0, UnwatchPosition)
NodeHandler == Handler("node", 0, NodePosition)
\* (a variant that registers server.close() in the tier of the sockets)
ServerHandlerWithSockets == Handler("server", 0, SocketPosition)
ServerHandler == Handler("server", 0, ServerPosition)
\* (a variant that registers the socket's action in the tier of the node)
SocketHandlerWithNode(c) == Handler("socket", c, NodePosition)
SocketHandler(c) == Handler("socket", c, SocketPosition)

\* onexit's `order`: the next tier is the handlers of the lowest position.
NextTier(hs) == {h \in hs : \A g \in hs : h.position <= g.position}

\* ------------------------------------------------------------ the identity
\* The seed file: absent, or one line of text.
NoSeedFile == [exists |-> FALSE, text |-> BadToken]
GarbageSeedFile == [exists |-> TRUE, text |-> BadToken]
SeedFile(seed) == [exists |-> TRUE, text |-> [enc |-> "z32", key |-> seed]]
\* DHT.keyPair(seed): the key pair of a seed.
KeyPairOf(seed) == [publicKey |-> <<"public", seed>>, secretKey |-> <<"secret", seed>>]
NoKeyPair == [publicKey |-> <<"none", 0>>, secretKey |-> <<"none", 0>>]

\* ---------------------------------------------------------------- the state
VARIABLES
    startups,        \* how many times the program was started
    proc,            \* "starting", "keygen", "listen", "running", "aborted",
                     \* "crashed", "exited", "killed"
    disableFirewall, \* options.disableFirewall
    protocols,       \* options.protocol || PROTOCOLS
    file,            \* the authorized-peers file on disk
    allowed,         \* cmd's `allowed`
    watching,        \* read-file-live watches the file
    dirty,           \* a change of the file has not been read yet
    serverState,     \* "init", "listening", "closing", "closed"
    nodeState,       \* "up", "destroying", "destroyed"
    conns,           \* the connections, by order of arrival
    handlers,        \* graceful-goodbye's `handlers`
    exiting,         \* graceful-goodbye's `exiting`
    order,           \* onexit's `order`: the handlers not started yet
    snapshot,        \* the handlers onexit found when it was triggered
    running,         \* the handlers started and not settled
    ran,             \* how many times each handler was started
    keyfile,         \* the seed file on disk
    generated,       \* how many seeds keygen has written
    keyPair          \* the key pair the server listens under

vars == <<proc, disableFirewall, protocols, keyfile, generated, keyPair, startups, file, allowed, watching, dirty,
          serverState, nodeState, conns, handlers, exiting, order, snapshot,
          running, ran>>

NoConn == [state |-> "idle", pk |-> 0, verdict |-> "none", localEnded |-> FALSE,
           remoteEnded |-> FALSE, mux |-> FALSE, paired |-> {}, negotiated |-> {},
           sessions |-> {},
           closedEarly |-> FALSE, error |-> "none"]

Init ==
    /\ proc = "starting"
    /\ disableFirewall \in BOOLEAN
    /\ protocols \in ProtocolChoices
    /\ file \in Files
    /\ allowed = ListOf(<<>>)
    /\ watching = FALSE
    /\ dirty = FALSE
    /\ serverState = "init"
    /\ nodeState = "up"
    /\ conns = [c \in Conns |-> NoConn]
    /\ handlers = {}
    /\ exiting = FALSE
    /\ order = {}
    /\ snapshot = {}
    /\ running = {}
    /\ ran = [h \in HandlerIds |-> 0]
    /\ keyfile \in {NoSeedFile, GarbageSeedFile}
    /\ generated = 0
    /\ keyPair = NoKeyPair
    /\ startups = 0

\* The drain has a microtask queued (Promise.allSettled(..).then(loop)): it
\* runs before any other callback.
\* The process lives and its handlers are set up: cmd waits for
\* server.listen or has returned.
Alive == proc \in {"listen", "running"}
LoopPending == Alive /\ exiting /\ running = {}
\* The event loop is free to run a callback.
Idle == Alive /\ ~LoopPending

\* ------------------------------------------------------------------ startup
\* (a variant that generates a seed at every startup)
KeygenNeededAlways(k) == TRUE
\* `if (!fs.existsSync(keyfile))`.
KeygenNeeded(k) == ~k.exists

\* keygen({ f: keyfile }) of bin/keygen.js: it writes a fresh seed, which no
\* earlier call has written; `n` calls were made before.
keygen(n) == SeedFile(n + 1)

\* (a variant that takes any text for a seed)
SeedDecodesAlways(k) == TRUE
\* HypercoreId.decode(fs.readFileSync(keyfile, 'utf8').trim()) returns.
SeedDecodes(k) == Decodable(k.text)

\* cmd from `let allowed = ..` (line 46) to the call of server.listen (line
\* 65), which runs without a break; `kf` is the seed file.  A throw rejects
\* cmd, nothing handles the rejection, and the process ends with what was
\* set up before the throw left as it is.
Setup(kf) ==
    LET created == IF file.exists THEN file ELSE DefaultFirewall
        r == readAuthorizedPeers(created.lines)
        unwatch == IF disableFirewall THEN {} ELSE {UnwatchHandler}
    IN  /\ file' = IF disableFirewall THEN file ELSE created
        /\ IF ~disableFirewall /\ ~r.ok
           THEN /\ proc' = "aborted"
                /\ UNCHANGED <<allowed, watching, dirty, handlers, keyPair>>
           ELSE /\ allowed' = IF disableFirewall THEN AllowAll ELSE ListOf(r.peers)
                /\ watching' = ~disableFirewall
                /\ dirty' = ~disableFirewall
                /\ IF SeedDecodes(kf)
                   THEN /\ keyPair' = KeyPairOf(Decode(kf.text))
                        /\ handlers' = unwatch \cup {NodeHandler, ServerHandler}
                        /\ proc' = "listen"
                   ELSE /\ proc' = "aborted"
                        /\ handlers' = unwatch
                        /\ keyPair' = keyPair
        /\ UNCHANGED <<disableFirewall, protocols, serverState, nodeState, conns,
                       exiting, order, snapshot, running, ran>>

\* cmd(options) is called: with no seed file it waits for keygen (line 43),
\* else it goes on to the call of server.listen.
cmd ==
    /\ proc = "starting"
    /\ startups < MaxStartups
    /\ startups' = startups + 1
    /\ IF KeygenNeeded(keyfile)
       THEN /\ proc' = "keygen"
            /\ UNCHANGED <<disableFirewall, protocols, keyfile, generated, keyPair,
                           file, allowed, watching, dirty, serverState, nodeState,
                           conns, handlers, exiting, order, snapshot, running, ran>>
       ELSE /\ Setup(keyfile)
            /\ UNCHANGED <<keyfile, generated>>

\* keygen has written the seed file and resolves: cmd goes on to the call of
\* server.listen.
cmdAfterKeygen ==
    /\ proc = "keygen"
    /\ keyfile' = keygen(generated)
    /\ generated' = generated + 1
    /\ Setup(keygen(generated))
    /\ UNCHANGED startups

\* server.listen(keyPair) settles (line 65); `bind` tells whether the server
\* could bind.  A server that was told to close while it was binding does
\* not come to listen.
cmdAfterListen(bind) ==
    /\ proc = "listen"
    /\ ~LoopPending
    /\ proc' = IF bind THEN "running" ELSE "aborted"
    /\ serverState' = IF ~bind THEN "failed"
                      ELSE IF serverState = "init" THEN "listening" ELSE serverState
    /\ UNCHANGED <<disableFirewall, protocols, keyfile, generated, keyPair, startups,
                   file, allowed, watching, dirty, nodeState, conns, handlers,
                   exiting, order, snapshot, running, ran>>

\* The server is started again, on the same files and with the same options,
\* after the process has ended.
Restart ==
    /\ proc \in {"aborted", "crashed", "exited", "killed"}
    /\ proc' = "starting"
    /\ allowed' = ListOf(<<>>)
    /\ watching' = FALSE
    /\ dirty' = FALSE
    /\ serverState' = "init"
    /\ nodeState' = "up"
    /\ keyPair' = NoKeyPair
    /\ conns' = [c \in Conns |-> NoConn]
    /\ handlers' = {}
    /\ exiting' = FALSE
    /\ order' = {}
    /\ snapshot' = {}
    /\ running' = {}
    /\ ran' = [h \in HandlerIds |-> 0]
    /\ UNCHANGED <<disableFirewall, protocols, file, keyfile, generated, startups>>

\* ------------------------------------------------------- the firewall file
\* Someone edits the authorized-peers file; the watcher, when there is one,
\* notices.
EditFile ==
    /\ proc \in {"keygen", "listen", "running"}
    /\ \E ls \in Contents :
        /\ FileOf(ls) # file
        /\ file' = FileOf(ls)
    /\ dirty' = watching
    /\ UNCHANGED <<proc, disableFirewall, protocols, keyfile, generated, keyPair, startups, allowed, watching, serverState,
                   nodeState, conns, handlers, exiting, order, snapshot, running, ran>>

\* Someone removes the authorized-peers file.
DeleteFile ==
    /\ proc \in {"keygen", "listen", "running"}
    /\ file.exists
    /\ file' = NoFile
    /\ dirty' = watching
    /\ UNCHANGED <<proc, disableFirewall, protocols, keyfile, generated, keyPair, startups, allowed, watching, serverState,
                   nodeState, conns, handlers, exiting, order, snapshot, running, ran>>

\* (a variant that takes a file without entries for "no firewall")
ReloadEmptyAllowsAll(old, peers) == IF peers = <<>> THEN AllowAll ELSE ListOf(peers)
\* (a variant that keeps the old list when the new one is empty)
ReloadUnlessEmpty(old, peers) == IF peers = <<>> THEN old ELSE ListOf(peers)
\* (a variant that pushes the new keys onto the old list)
ReloadAppend(old, peers) == ListOf(old.peers \o peers)
\* The new value of `allowed` in the watcher's callback.
Reload(old, peers) == ListOf(peers)

\* readAuthorizedPeers(buf) with what read-file-live hands over: the content
\* of the file, or null when there is no file.  configs.parse(null) throws a
\* TypeError, which has no code ENOENT: it is thrown again.
readAuthorizedPeersOfBuffer(f) ==
    IF f.exists THEN readAuthorizedPeers(f.lines) ELSE [ok |-> FALSE, peers |-> <<>>]

\* read-file-live reads the file and calls back:
\* allowed = readAuthorizedPeers(buf).  A throw in the callback is an
\* uncaught exception: the process dies.
OnFileChange ==
    /\ Idle
    /\ watching
    /\ dirty
    /\ dirty' = FALSE
    /\ LET r == readAuthorizedPeersOfBuffer(file)
       IN  IF r.ok
           THEN /\ allowed' = Reload(allowed, r.peers)
                /\ proc' = proc
           ELSE /\ proc' = "crashed"
                /\ allowed' = allowed
    /\ UNCHANGED <<disableFirewall, protocols, keyfile, generated, keyPair, startups, file, watching, serverState,
                   nodeState, conns, handlers, exiting, order, snapshot, running, ran>>

\* -------------------------------------------------------------- connections
\* The next connection to arrive: connections are numbered as they arrive.
Arrives(c) ==
    /\ conns[c].state = "idle"
    /\ \A b \in Conns : b < c => conns[b].state # "idle"

\* The firewall hook of createServer({ firewall: onFirewall }): the handshake
\* of a remote peer `pk` goes on when the hook returns false.
Handshake(c, pk) ==
    /\ Idle
    /\ serverState = "listening"
    /\ Arrives(c)
    /\ LET v == onFirewall(allowed, pk)
       IN  conns' = [conns EXCEPT ![c] =
                       [@ EXCEPT !.state = IF v.ret THEN "rejected" ELSE "handshaken",
                                 !.pk = pk,
                                 !.verdict = v.log]]
    /\ UNCHANGED <<proc, disableFirewall, protocols, keyfile, generated, keyPair, startups, file, allowed, watching, dirty,
                   serverState, nodeState, handlers, exiting, order, snapshot,
                   running, ran>>

\* onconnection(socket): the handlers of the socket, the shutdown action of
\* the socket, the multiplexer and the enabled protocols.
onconnection(c) ==
    /\ Idle
    /\ serverState = "listening"
    /\ conns[c].state = "handshaken"
    /\ conns' = [conns EXCEPT ![c] =
                    [@ EXCEPT !.state = "open", !.mux = TRUE,
                              !.paired = Paired(protocols)]]
    /\ handlers' = handlers \cup {SocketHandler(c)}
    /\ UNCHANGED <<proc, disableFirewall, protocols, keyfile, generated, keyPair, startups, file, allowed, watching, dirty,
                   serverState, nodeState, exiting, order, snapshot, running, ran>>

\* (a variant that opens the handler whether it has a channel or not)
PairCallbackOpensAlways(m, channel) ==
    [handler |-> HandlerOf(m), channel |-> channel, opens |-> 1]
\* The callback of mux.pair: `new Handler(..)`, `if (!h.channel) return`,
\* `h.open()`.  The handler made, and how many times it was opened.
PairCallback(m, channel) ==
    [handler |-> HandlerOf(m), channel |-> channel,
     opens |-> IF channel THEN 1 ELSE 0]

\* The remote peer negotiates the protomux protocol `m`: a paired protocol
\* calls back, which makes the handler and opens it when it has a channel.
Negotiate(c, m, channel) ==
    /\ Idle
    /\ conns[c].state = "open"
    /\ ~conns[c].remoteEnded
    /\ Cardinality(conns[c].negotiated) < MaxNegotiations
    /\ m \notin conns[c].negotiated
    /\ conns' = [conns EXCEPT ![c] =
                    [@ EXCEPT !.negotiated = @ \cup {m},
                              !.sessions =
                                  IF m \in conns[c].paired
                                  THEN @ \cup {PairCallback(m, channel)}
                                  ELSE @]]
    /\ UNCHANGED <<proc, disableFirewall, protocols, keyfile, generated, keyPair, startups, file, allowed, watching, dirty,
                   serverState, nodeState, handlers, exiting, order, snapshot,
                   running, ran>>

\* (a variant that leaves the local side as it is)
onendNothing(conn) == conn
\* socket.on('end', () => socket.end()).
onend(conn) == [conn EXCEPT !.localEnded = TRUE]

\* The remote peer ends its side: the socket emits 'end'.
RemoteEnd(c) ==
    /\ Idle
    /\ conns[c].state = "open"
    /\ ~conns[c].remoteEnded
    /\ conns' = [conns EXCEPT ![c] = onend([@ EXCEPT !.remoteEnded = TRUE])]
    /\ UNCHANGED <<proc, disableFirewall, protocols, keyfile, generated, keyPair, startups, file, allowed, watching, dirty,
                   serverState, nodeState, handlers, exiting, order, snapshot,
                   running, ran>>

\* (a variant that never unregisters)
UnregisterNever(hs, c) == hs
\* (a variant that unregisters every socket)
UnregisterAllSockets(hs, c) == hs \ {h \in hs : h.kind = "socket"}
\* socket.once('close', () => unregisterSocket()): the handler leaves
\* `handlers` (not `order`).
Unregister(hs, c) == hs \ {h \in hs : HandlerId(h) = SocketId(c)}

\* The socket closes, both sides ended: the 'close' handlers run, and
\* waitForSocketTermination(socket) resolves.
Close(c) ==
    /\ Idle
    /\ conns[c].state = "open"
    /\ conns[c].localEnded
    /\ conns[c].remoteEnded
    /\ conns' = [conns EXCEPT ![c] =
                    [NoConn EXCEPT !.state = "closed", !.verdict = conns[c].verdict,
                                   !.closedEarly = ~exiting]]
    /\ handlers' = Unregister(handlers, c)
    /\ running' = running \ {SocketId(c)}
    /\ UNCHANGED <<proc, disableFirewall, protocols, keyfile, generated, keyPair, startups, file, allowed, watching, dirty,
                   serverState, nodeState, exiting, order, snapshot, ran>>

\* The codes of the transport errors.
ErrorCodes == {"ECONNRESET", "ETIMEDOUT", "EPIPE"}
\* (a variant that throws what it does not expect)
onerrorThrows(code) ==
    IF code = "ECONNRESET" \/ code = "ETIMEDOUT" THEN "return" ELSE "throw"
\* socket.on('error', ..): expected codes return, others are logged.
onerror(code) ==
    IF code = "ECONNRESET" \/ code = "ETIMEDOUT" THEN "return" ELSE "console.error"

\* The transport of a connection fails: the socket emits 'error' and, as it
\* is destroyed, 'close' (the 'close' handlers run as in Close).  A throw in
\* the 'error' handler is an uncaught exception.
SocketError(c, code) ==
    /\ Idle
    /\ conns[c].state = "open"
    /\ conns' = [conns EXCEPT ![c] =
                    [NoConn EXCEPT !.state = "closed", !.verdict = conns[c].verdict,
                                   !.closedEarly = ~exiting, !.error = code]]
    /\ proc' = IF onerror(code) = "throw" THEN "crashed" ELSE proc
    /\ handlers' = Unregister(handlers, c)
    /\ running' = running \ {SocketId(c)}
    /\ UNCHANGED <<disableFirewall, protocols, keyfile, generated, keyPair, startups, file, allowed, watching, dirty,
                   serverState, nodeState, exiting, order, snapshot, ran>>

\* ----------------------------------------------------------------- shutdown
\* waitForSocketTermination(socket) of lib/client-socket.js: it is pending
\* until the socket has fully terminated.
waitForSocketTermination(c) == conns[c].state # "closed"

\* loop(): the handlers of tier `t` all start.  A socket's action is
\* socket.end() and waitForSocketTermination(socket); the server's is
\* server.close(); the node's is node.destroy(); unwatchFirewall() is
\* synchronous.
StartTier(t) ==
    /\ conns' = [c \in Conns |->
                   IF SocketId(c) \in Ids(t) /\ conns[c].state = "open"
                   THEN [conns[c] EXCEPT !.localEnded = TRUE]
                   ELSE conns[c]]
    /\ serverState' = IF ServerId \in Ids(t) THEN "closing" ELSE serverState
    /\ nodeState' = IF NodeId \in Ids(t) THEN "destroying" ELSE nodeState
    /\ watching' = IF UnwatchId \in Ids(t) THEN FALSE ELSE watching
    /\ running' = {i \in Ids(t) :
                     \/ i \in {ServerId, NodeId}
                     \/ \E c \in Conns : i = SocketId(c) /\ waitForSocketTermination(c)}
    /\ ran' = [i \in HandlerIds |-> IF i \in Ids(t) THEN ran[i] + 1 ELSE ran[i]]

\* onexit's `if (exiting) return`: a trigger during the drain starts no
\* second drain.
AlreadyExiting == exiting

\* SIGINT or SIGTERM.  While cmd waits for keygen goodbye() has not been
\* called, no listener for the signal is installed, and the signal ends the
\* process.  Else onsignal() and onexit() run: the first signal orders the
\* handlers by position and starts the first tier; a signal during the drain
\* starts nothing, and either is ignored or ends the process at once
\* (`kill`), as the listener for it is still installed or not.
Signal(kill) ==
    \/ /\ proc = "keygen"
       /\ proc' = "killed"
       /\ UNCHANGED <<disableFirewall, protocols, keyfile, generated, keyPair, startups,
                      file, allowed, watching, dirty, serverState, nodeState, conns,
                      handlers, exiting, order, snapshot, running, ran>>
    \/ /\ Idle
       /\ IF AlreadyExiting
          THEN /\ proc' = IF kill THEN "killed" ELSE proc
               /\ UNCHANGED <<conns, serverState, nodeState, watching, running, ran,
                              exiting, order, snapshot>>
          ELSE /\ proc' = proc
               /\ exiting' = TRUE
               /\ snapshot' = Ids(handlers)
               /\ order' = handlers \ NextTier(handlers)
               /\ StartTier(NextTier(handlers))
       /\ UNCHANGED <<disableFirewall, protocols, keyfile, generated, keyPair, startups, file, allowed, dirty, handlers>>

\* loop() after a tier has settled: the next tier starts.
Loop ==
    /\ LoopPending
    /\ order # {}
    /\ order' = order \ NextTier(order)
    /\ StartTier(NextTier(order))
    /\ UNCHANGED <<proc, disableFirewall, protocols, keyfile, generated, keyPair, startups, file, allowed, dirty, handlers,
                   exiting, snapshot>>

\* done(): every tier has settled, and the signal forces process.exit().
Done ==
    /\ LoopPending
    /\ order = {}
    /\ proc' = "exited"
    /\ UNCHANGED <<disableFirewall, protocols, keyfile, generated, keyPair, startups, file, allowed, watching, dirty,
                   serverState, nodeState, conns, handlers, exiting, order, snapshot,
                   running, ran>>

\* server.close() resolves; on a server that is binding it waits until
\* server.listen has settled.
ServerClosed ==
    /\ proc = "running"
    /\ ServerId \in running
    /\ serverState' = "closed"
    /\ running' = running \ {ServerId}
    /\ UNCHANGED <<proc, disableFirewall, protocols, keyfile, generated, keyPair, startups, file, allowed, watching, dirty,
                   nodeState, conns, handlers, exiting, order, snapshot, ran>>

\* node.destroy() resolves.
NodeDestroyed ==
    /\ Alive
    /\ NodeId \in running
    /\ nodeState' = "destroyed"
    /\ running' = running \ {NodeId}
    /\ UNCHANGED <<proc, disableFirewall, protocols, keyfile, generated, keyPair, startups, file, allowed, watching, dirty,
                   serverState, conns, handlers, exiting, order, snapshot, ran>>

Next ==
    \/ cmd
    \/ cmdAfterKeygen
    \/ \E bind \in BOOLEAN : cmdAfterListen(bind)
    \/ Restart
    \/ EditFile
    \/ DeleteFile
    \/ OnFileChange
    \/ \E c \in Conns, pk \in Keys : Handshake(c, pk)
    \/ \E c \in Conns : onconnection(c)
    \/ \E c \in Conns, m \in MuxProtocols, ch \in BOOLEAN : Negotiate(c, m, ch)
    \/ \E c \in Conns : RemoteEnd(c)
    \/ \E c \in Conns : Close(c)
    \/ \E c \in Conns, code \in ErrorCodes : SocketError(c, code)
    \/ \E kill \in BOOLEAN : Signal(kill)
    \/ Loop
    \/ Done
    \/ ServerClosed
    \/ NodeDestroyed

Spec == Init /\ [][Next]_vars

\* ------------------------------------------------------------ properties
Range(f) == {f[i] : i \in DOMAIN f}
Accepted(c) == conns[c].state \in {"open", "closed"}
Decided(c) == conns[c].state \in {"rejected", "handshaken"}
EnabledProtocols == {MuxProtocol(p) : p \in protocols \cap PROTOCOLS}

\* C1: every decision of the firewall callback rejects the remote key exactly
\* when enforcement is on and the key equals no key of the current authorized
\* list; with enforcement off it rejects no key.
FirewallDecidesByMembership ==
    [][\A c \in Conns :
         (conns[c].state = "idle" /\ conns'[c].state # "idle") =>
            /\ Decided(c)'
            /\ (conns'[c].state = "rejected") <=>
                  (~disableFirewall /\ conns'[c].pk \notin Range(allowed.peers))
            /\ (conns'[c].verdict = "denied") <=> (conns'[c].state = "rejected")]_vars
\* An enforcing server has let one peer in and rejected another.
FirewallDecidedBoth ==
    /\ ~disableFirewall
    /\ \E c, d \in Conns :
         /\ conns[c].state = "rejected"
         /\ conns[d].state = "handshaken"
         /\ conns[d].pk \in Range(allowed.peers)

\* C2: a connection has a multiplexer or a handler only after the firewall
\* allowed it; a connection the firewall denied has neither, ever.
FirewallBeforeMux ==
    \A c \in Conns :
        /\ (conns[c].mux \/ conns[c].sessions # {} \/ Accepted(c)) =>
              conns[c].verdict = "allowed"
        /\ conns[c].verdict = "denied" =>
              conns[c].state = "rejected" /\ ~conns[c].mux /\ conns[c].sessions = {}
\* One connection was denied and another has a handler on its multiplexer.
DeniedAndServed ==
    \E c, d \in Conns :
        /\ conns[c].verdict = "denied"
        /\ conns[d].mux
        /\ conns[d].sessions # {}

\* C3: on every connection, the protocols paired on the multiplexer and the
\* handlers made are of enabled protocols only, whatever the peer negotiates.
OnlyEnabledProtocols ==
    \A c \in Conns :
        /\ conns[c].paired \subseteq EnabledProtocols
        /\ \A s \in conns[c].sessions : s.handler \in {HandlerOf(m) : m \in EnabledProtocols}
\* With only shell enabled, a peer negotiated upload and got no handler.
UploadRefused ==
    /\ protocols = {"shell"}
    /\ \E c \in Conns :
         /\ "hypershell-upload" \in conns[c].negotiated
         /\ conns[c].sessions = {}

\* C4: once server.close() has started no socket action starts, and once
\* node.destroy() has started server.close() does not start.
TierOrder ==
    [][/\ ran[ServerId] > 0 => \A c \in Conns : ran'[SocketId(c)] <= ran[SocketId(c)]
       /\ ran[NodeId] > 0 => ran'[ServerId] <= ran[ServerId]]_vars
\* The three tiers have started.
AllTiersStarted ==
    /\ \E c \in Conns : ran[SocketId(c)] = 1
    /\ ran[ServerId] = 1
    /\ ran[NodeId] = 1

\* C5: when server.close() has started, every socket whose action started
\* has closed; when node.destroy() has started, server.close() has resolved.
TierBarrier ==
    /\ ran[ServerId] > 0 =>
          \A c \in Conns : ran[SocketId(c)] > 0 => conns[c].state = "closed"
    /\ ran[NodeId] > 0 => serverState = "closed"
\* Two sockets were drained, and the node is being destroyed.
DrainedTwoSockets ==
    /\ \A c \in Conns : ran[SocketId(c)] = 1
    /\ nodeState = "destroying"

\* C6: when server.close() has started, no accepted connection is open.
NoOpenConnectionAtServerClose ==
    ran[ServerId] > 0 => \A c \in Conns : conns[c].state # "open"

\* C7: the action of a socket that closed before the shutdown is in no
\* registry and never runs.
ClosedSocketLeavesNoAction ==
    \A c \in Conns :
        conns[c].closedEarly =>
            /\ ran[SocketId(c)] = 0
            /\ SocketId(c) \notin Ids(handlers)
            /\ SocketId(c) \notin snapshot
            /\ SocketId(c) \notin Ids(order)
\* A socket closed by itself, and a later shutdown ran to its end.
ClosedThenShutDown ==
    /\ proc = "exited"
    /\ \E c \in Conns : conns[c].closedEarly

\* C8: no action runs twice; an action runs only if it was registered when
\* the shutdown was triggered; and when the process has ended after a
\* trigger, by its exit or by an uncaught exception, each of these has run
\* once.
EverySnapshotActionRunsOnce ==
    /\ \A i \in HandlerIds : ran[i] <= 1
    /\ \A i \in HandlerIds : ran[i] > 0 => exiting /\ i \in snapshot
    /\ (exiting /\ proc \in {"exited", "crashed"}) => \A i \in snapshot : ran[i] = 1

\* The keys of the lines that are neither comments nor blank.
FileKeys(ls) ==
    {ls[i].fields[1].key : i \in {j \in 1..Len(ls) : ls[j].kind \notin {"comment", "blank"}}}

\* C9: when the watcher has read the latest edit, the authorized list holds
\* the keys of the file's lines that are neither comments nor blank, and the
\* firewall rejects exactly the other keys.
ReloadIsFresh ==
    (Alive /\ watching /\ ~dirty /\ file.exists) =>
        /\ ~allowed.all
        /\ Range(allowed.peers) = FileKeys(file.lines)
        /\ \A pk \in Keys :
              onFirewall(allowed, pk).ret <=> pk \notin FileKeys(file.lines)
\* The file lists no key any more, the edit was read, and a peer listed
\* before is rejected.
KeyRemovedAndDenied ==
    /\ proc = "running" /\ watching /\ ~dirty
    /\ FileKeys(file.lines) = {}
    /\ \E c, d \in Conns :
         /\ conns[c].state = "open"
         /\ conns[d].state = "rejected"
         /\ conns[d].pk = conns[c].pk

\* The keys of the entries of a text, in order.
EntryKeys(ls) ==
    LET es == SelectSeq(ls, LAMBDA l : l.kind = "entry")
    IN  [i \in 1..Len(es) |-> es[i].fields[1].key]

\* C10: every step of a process that changes its authorized list installs the complete
\* list of one version of the file, the one on disk at that step (or the
\* allow-all value at startup); a decision of the firewall changes nothing.
SwapIsWhole ==
    [][/\ (allowed' # allowed /\ proc' \in {"listen", "running"}) =>
             \/ disableFirewall /\ allowed' = AllowAll
             \/ file'.exists /\ allowed' = ListOf(EntryKeys(file'.lines))
       /\ (\E c \in Conns : conns[c].state = "idle" /\ conns'[c].state # "idle") =>
             allowed' = allowed]_vars
\* The list was swapped after startup: it holds a key, the file that was
\* there at startup is gone, and a peer was decided.
SwappedAndDecided ==
    /\ proc = "running" /\ ~dirty /\ watching
    /\ allowed.peers # <<>>
    /\ \E c \in Conns : Decided(c) /\ conns[c].pk \in Range(allowed.peers)
    /\ \E d \in Conns : conns[d].state = "rejected" /\ conns[d].pk \in Range(allowed.peers)

\* C11: when the watcher reads an edit that readAuthorizedPeers cannot
\* parse, the authorized list keeps its value and the process keeps running.
MalformedEditKeepsList ==
    [][(/\ proc = "running" /\ watching /\ dirty /\ ~dirty'
        /\ file.exists /\ ~readAuthorizedPeers(file.lines).ok)
         => (proc' = "running" /\ allowed' = allowed)]_vars

\* A startup with the firewall enabled that finds no authorized-peers file
\* when it reads it, and goes on to server.listen, starts with the empty list.
AbsentAtStartupIsEmpty ==
    (proc \in {"starting", "keygen"} /\ proc' = "listen" /\ ~disableFirewall /\ ~file.exists)
        => (allowed' = ListOf(<<>>) /\ file' = DefaultFirewall)
\* The watcher reads the file when it is missing: the list becomes empty and
\* the process keeps running.
MissingAtReloadIsEmpty ==
    (proc = "running" /\ watching /\ dirty /\ ~dirty' /\ ~file.exists)
        => (proc' = "running" /\ allowed' = ListOf(<<>>))

\* C12: a missing authorized-peers file, at startup or at a later reload,
\* gives the empty authorized list and is no error.
MissingFileIsEmptySet ==
    [][AbsentAtStartupIsEmpty /\ MissingAtReloadIsEmpty]_vars

\* C13: a startup whose seed does not decode or whose authorized-peers file
\* (firewall enabled) does not parse ends aborted before server.listen is
\* called, and one whose listener fails to bind ends aborted when
\* server.listen settles; until cmd has returned, and in an aborted run, the
\* server does not listen and no connection is decided or accepted.
StartupFailureAborts ==
    [][/\ (proc \in {"starting", "keygen"} /\ proc' \notin {"starting", "keygen", "killed"}) =>
             IF \/ ~Decodable(keyfile'.text)
                \/ ~disableFirewall /\ ~readAuthorizedPeers(file'.lines).ok
             THEN proc' = "aborted"
             ELSE proc' = "listen" /\ serverState' = "init"
       /\ (proc = "listen" /\ serverState' = "failed") => proc' = "aborted"
       /\ (proc = "listen" /\ proc' = "aborted") => serverState' = "failed"
       /\ proc' \in {"starting", "keygen", "listen", "aborted"} =>
             /\ serverState' # "listening"
             /\ \A c \in Conns : conns'[c].state = "idle"]_vars
\* A startup was aborted on a seed file that does not decode, after the
\* firewall file was read and its watcher started.
AbortedOnSeed ==
    /\ proc = "aborted"
    /\ keyfile = GarbageSeedFile
    /\ ~disableFirewall
    /\ watching
    /\ handlers = {UnwatchHandler}
    /\ serverState = "init"

\* C14: a negotiation of a paired protocol on a connection makes exactly one
\* handler, of that protocol's class; the handler is opened once when it has
\* a channel and never when it has none.  A negotiation of a protocol that
\* is not paired makes none.
OneHandlerOpenedOnce ==
    [][\A c \in Conns :
          (/\ conns[c].state = "open" /\ conns'[c].state = "open"
           /\ conns'[c].negotiated # conns[c].negotiated) =>
              \E m \in conns'[c].negotiated \ conns[c].negotiated :
                  /\ conns'[c].negotiated = conns[c].negotiated \cup {m}
                  /\ IF m \in Paired(protocols)
                     THEN \E h \in conns'[c].sessions \ conns[c].sessions :
                              /\ conns'[c].sessions = conns[c].sessions \cup {h}
                              /\ h.handler = HandlerOf(m)
                              /\ h.opens = IF h.channel THEN 1 ELSE 0
                     ELSE conns'[c].sessions = conns[c].sessions]_vars
\* One connection has a handler without a channel, never opened, and another
\* a handler with a channel, opened once.
OpenedAndNotOpened ==
    \E c, d \in Conns :
        /\ \E h \in conns[c].sessions : ~h.channel /\ h.opens = 0
        /\ \E h \in conns[d].sessions : h.channel /\ h.opens = 1

\* C15: a transport error on a connection, of any code, leaves the process,
\* the server, the node, the authorized list, the other connections and the
\* registrations of everything but that connection's socket as they are.
TransportErrorIsLocal ==
    [][\A c \in Conns :
          (conns[c].state = "open" /\ conns'[c].error # "none") =>
              /\ proc' = proc
              /\ serverState' = serverState
              /\ nodeState' = nodeState
              /\ allowed' = allowed
              /\ watching' = watching
              /\ \A d \in Conns \ {c} : conns'[d] = conns[d]
              /\ {h \in handlers' : HandlerId(h) # SocketId(c)}
                    = {h \in handlers : HandlerId(h) # SocketId(c)}]_vars
\* A connection failed with a code that is not expected noise while another
\* is open, registered, and the server listens.
FailedBesideOpen ==
    /\ proc = "running"
    /\ serverState = "listening"
    /\ \E c, d \in Conns :
          /\ conns[c].error = "EPIPE"
          /\ conns[d].state = "open"
          /\ SocketId(d) \in Ids(handlers)

\* C16: a seed file that exists is never written again, a seed is generated
\* only by a startup that finds no seed file, and every run that listens,
\* the first and the later ones, does so under the key pair of the seed in
\* the file, which is the first seed generated.
SeedGeneratedOnce ==
    [][/\ keyfile.exists => (keyfile' = keyfile /\ generated' = generated)
       /\ (~keyfile.exists /\ keyfile'.exists) =>
             (proc = "keygen" /\ keyfile' = keygen(generated) /\ generated' = generated + 1)
       /\ proc' \in {"listen", "running"} =>
             /\ generated' = 1
             /\ keyfile' = keygen(0)
             /\ keyPair' = KeyPairOf(Decode(keyfile'.text))]_vars
\* The program listens after its second startup, under the key pair of the
\* one seed generated at the first.
SecondStartupSameKey ==
    /\ proc = "running"
    /\ serverState = "listening"
    /\ startups = 2
    /\ generated = 1
    /\ keyPair = KeyPairOf(Decode(keygen(0).text))

\* C17: no accepted connection is open with its remote side ended and its
\* local side not ended.
HalfCloseMirrored ==
    \A c \in Conns :
        (conns[c].state = "open" /\ conns[c].remoteEnded) => conns[c].localEnded
\* Outside a shutdown, the remote peer has ended an open connection and the
\* local side is ended too.
EndedBothWays ==
    /\ proc = "running"
    /\ ~exiting
    /\ \E c \in Conns :
          conns[c].state = "open" /\ conns[c].remoteEnded /\ conns[c].localEnded

\* C18: a shutdown that has begun is not cut short: the process leaves the
\* drain only by exiting, with the action of every handler of the snapshot
\* started, the sockets', the server's and the node's.
ShutdownRunsToTheEnd ==
    [][(proc = "running" /\ exiting) =>
          \/ proc' = "running"
          \/ /\ proc' = "exited"
             /\ ran'[ServerId] = 1
             /\ ran'[NodeId] = 1
             /\ \A i \in snapshot : ran'[i] = 1]_vars

\* The connections whose socket has a registration in `hs`.
Registered(hs) == {c \in Conns : SocketId(c) \in Ids(hs)}

\* C19: before a shutdown, the registered socket handlers are those of the
\* accepted connections that have not closed, one each, beside the server's
\* and the node's; accepting a connection adds its handler and nothing else,
\* its close removes its handler and nothing else.
RegistryMatchesOpenSockets ==
    [][(proc' \in {"listen", "running"} /\ ~exiting') =>
          /\ Registered(handlers') = {c \in Conns : conns'[c].state = "open"}
          /\ {h \in handlers' : h.kind = "socket"} = {SocketHandler(c) : c \in Registered(handlers')}
          /\ {ServerHandler, NodeHandler} \subseteq handlers'
          /\ \A c \in Conns :
                /\ (conns[c].state = "handshaken" /\ conns'[c].state = "open") =>
                       (SocketHandler(c) \notin handlers /\ handlers' = handlers \cup {SocketHandler(c)})
                /\ (conns[c].state = "open" /\ conns'[c].state = "closed") =>
                       (SocketHandler(c) \in handlers /\ handlers' = handlers \ {SocketHandler(c)})]_vars
\* Before any shutdown two connections were accepted, one has closed and
\* left the registry, the other is open and registered.
OneClosedOneRegistered ==
    /\ proc = "running"
    /\ ~exiting
    /\ \E c, d \in Conns :
          /\ conns[c].state = "closed"
          /\ conns[d].state = "open"
          /\ Registered(handlers) = {d}

\* C20: with the firewall enabled the authorized list of a running process
\* is never the allow-all value, whatever the file holds, and a key that is
\* not in the list is rejected; with the firewall disabled the list is the
\* allow-all value whatever the file holds, and no peer is rejected.
FirewallModeFixed ==
    /\ (Alive /\ ~disableFirewall) =>
          /\ ~allowed.all
          /\ \A pk \in Keys :
                pk \notin Range(allowed.peers) => onFirewall(allowed, pk).ret
    /\ (Alive /\ disableFirewall) =>
          /\ allowed = AllowAll
          /\ ~watching
          /\ \A pk \in Keys : ~onFirewall(allowed, pk).ret
          /\ \A c \in Conns : conns[c].state # "rejected"
\* The firewall is disabled, the file was edited to list one key only, and
\* a peer with another key was accepted.
UnlistedAcceptedWithoutFirewall ==
    /\ proc = "running"
    /\ disableFirewall
    /\ file.exists
    /\ \E c \in Conns :
          /\ conns[c].state = "open"
          /\ FileKeys(file.lines) = Keys \ {conns[c].pk}


====
